---- MODULE Spec2Model ----
(***************************************************************************)
(* Memory-traffic / latency estimation of GEMM and 2D convolution on a     *)
(* three-level memory hierarchy (DRAM, central SRAM, CGRA-local SRAM).     *)
(*                                                                         *)
(* Python numbers that may be floats (reloads, scaled byte totals,         *)
(* computation cycles, utilization, total latency) are fractions <<n, d>>  *)
(* in lowest terms with d > 0.  Python ints that the code keeps integral   *)
(* (byte sizes, tile counts, the int(...) transfer latencies) are          *)
(* integers.  None is the empty sequence <<>>; a GEMM tiling_size t is     *)
(* <<t>> and a Conv tiling_size (h, w) is <<h, w>>.                        *)
(***************************************************************************)
EXTENDS Integers, Sequences, FiniteSets, TLC

VARIABLES operation, hw_config, config, i, j, results, calls, pc, exception,
          transfers

vars == <<operation, hw_config, config, i, j, results, calls, pc, exception,
          transfers>>

(***************************************************************************)
(* Bounds of the explored inputs.                                          *)
(***************************************************************************)
MaxPoints == 2
MaxTransfers == 2

GemmDimValues == {1, 16, 27, 256}
GemmTypeSizes == {1, 4}
GemmTilings == {<<>>, <<0>>, <<3>>, <<32>>}

ConvDimValues == {2, 16}
ConvKernelValues == {1, 3, 5}
ConvTilings == {<<>>, <<0, 4>>, <<4, 0>>, <<3, 5>>, <<32, 32>>}
\* (num_channels, num_filters, padding, stride)
ConvShapes == {<<1, 1, 0, 1>>, <<3, 2, 1, 1>>, <<1, 2, 0, 2>>, <<2, 1, 1, 2>>}

\* (dram_size MB, central_sram_size KB, cgra_sram_size KB, dma_transfer_rate)
HwDicts == {<<32, 512, 32, 16>>, <<1, 2, 1, 3>>}

\* byte counts handed to _calculate_transfer_latency on its own
TransferSizes == {<<0, 1>>, <<1, 1>>, <<1, 2>>, <<15, 1>>, <<16, 1>>, <<17, 1>>,
                  <<47, 1>>, <<48, 1>>, <<97, 2>>, <<4096, 1>>, <<1048576, 1>>,
                  <<25165824, 1>>}
TransferHwDicts == HwDicts \cup {<<32, 512, 32, 1>>}

SeqsUpTo(S, n) == UNION {[1..k -> S] : k \in 0..n}

(***************************************************************************)
(* Arithmetic on fractions.                                                *)
(***************************************************************************)
Abs(x) == IF x < 0 THEN -x ELSE x

RECURSIVE GCD(_, _)
GCD(a, b) == IF b = 0 THEN a ELSE GCD(b, a % b)

Frac(n, d) == LET g == GCD(Abs(n), d) IN <<n \div g, d \div g>>

FracInt(n) == <<n, 1>>

FracMul(a, b) ==
    LET g1 == GCD(Abs(a[1]), b[2])
        g2 == GCD(Abs(b[1]), a[2])
    IN  <<(a[1] \div g1) * (b[1] \div g2), (a[2] \div g2) * (b[2] \div g1)>>

FracAdd(a, b) == Frac(a[1] * b[2] + b[1] * a[2], a[2] * b[2])

FracLeq(a, b) == a[1] * b[2] <= b[1] * a[2]

FracLess(a, b) == a[1] * b[2] < b[1] * a[2]

\* Python max(x, y): the first argument unless the second is strictly larger.
FracMax(a, b) == IF FracLess(a, b) THEN b ELSE a

\* Python min(x, y): the first argument unless the second is strictly smaller.
FracMin(a, b) == IF FracLess(b, a) THEN b ELSE a

Min(a, b) == IF b < a THEN b ELSE a

\* int(np.ceil(x)) of a fraction
Ceil(a) == -((-a[1]) \div a[2])

(***************************************************************************)
(* hardware_config.py                                                      *)
(***************************************************************************)
HardwareConfig(config_dict) ==
    [dram_size         |-> config_dict[1] * 1024 * 1024,
     central_sram_size |-> config_dict[2] * 1024,
     cgra_sram_size    |-> config_dict[3] * 1024,
     dma_transfer_rate |-> config_dict[4]]

\* variant: the fractions are not capped at 1.0
calculate_memory_utilization_NoCap(hw, total_memory) ==
    [cgra_sram    |-> Frac(total_memory, hw.cgra_sram_size),
     central_sram |-> Frac(total_memory, hw.central_sram_size),
     dram         |-> Frac(total_memory, hw.dram_size)]

calculate_memory_utilization(hw, total_memory) ==
    [cgra_sram    |-> FracMin(FracInt(1), Frac(total_memory, hw.cgra_sram_size)),
     central_sram |-> FracMin(FracInt(1), Frac(total_memory, hw.central_sram_size)),
     dram         |-> FracMin(FracInt(1), Frac(total_memory, hw.dram_size))]

\* variant: every transfer pays one setup cycle
calculate_transfer_latency_Setup(hw, size_bytes) ==
    Ceil(Frac(size_bytes[1], size_bytes[2] * hw.dma_transfer_rate)) + 1

\* variant: the quotient is truncated instead of rounded up
calculate_transfer_latency_Floor(hw, size_bytes) ==
    size_bytes[1] \div (size_bytes[2] * hw.dma_transfer_rate)

\* size_bytes is a fraction (an int or a float in the code)
calculate_transfer_latency(hw, size_bytes) ==
    Ceil(Frac(size_bytes[1], size_bytes[2] * hw.dma_transfer_rate))

\* variant: the record is inserted at the front
ListAppend_Front(list, record) == <<record>> \o list

\* results.append(record)
ListAppend(list, record) == Append(list, record)

\* sum(latencies.values())
RECURSIVE SumOver(_, _)
SumOver(d, keys) ==
    IF keys = {} THEN FracInt(0)
    ELSE LET k == CHOOSE x \in keys : TRUE
         IN  FracAdd(d[k], SumOver(d, keys \ {k}))

SumValues(d) == SumOver(d, DOMAIN d)

(***************************************************************************)
(* gemm_analyzer.py                                                        *)
(***************************************************************************)
GEMMConfig(dimensions, data_type_size, tiling_size) ==
    [dimensions     |-> dimensions,
     data_type_size |-> data_type_size,
     tiling_size    |-> tiling_size]

\* variant: the placement test reads the local buffer size
FitsCentral_LocalTier(hw, total_size) == total_size <= hw.cgra_sram_size

\* "total_size <= self.hw_config.central_sram_size"
FitsCentral(hw, total_size) == total_size <= hw.central_sram_size

\* truth value of config.tiling_size: None and 0 are false
GemmTilingTruthy(cfg) == cfg.tiling_size # <<>> /\ cfg.tiling_size[1] # 0

GEMM_calculate_memory_requirements(dim, cfg) ==
    LET matrix_size == dim * dim * cfg.data_type_size
    IN  [per_matrix |-> matrix_size,
         total      |-> matrix_size * 3,
         breakdown  |-> [input_a |-> matrix_size,
                         input_b |-> matrix_size,
                         output  |-> matrix_size]]

\* variant: the tile count is rounded down
GemmLoads_TilesFloor(dim, matrix_size, cfg) ==
    IF GemmTilingTruthy(cfg)
    THEN LET tile_size   == cfg.tiling_size[1]
             num_tiles   == dim \div tile_size
             tile_bytes  == tile_size * tile_size * cfg.data_type_size
         IN  [matrix_a_load  |-> tile_bytes * num_tiles * num_tiles,
              matrix_b_load  |-> tile_bytes * num_tiles * num_tiles,
              matrix_c_load  |-> tile_bytes * num_tiles * num_tiles,
              matrix_c_store |-> tile_bytes * num_tiles * num_tiles]
    ELSE [matrix_a_load  |-> matrix_size,
          matrix_b_load  |-> matrix_size,
          matrix_c_load  |-> matrix_size,
          matrix_c_store |-> matrix_size]

\* the four loads of lines 55-75 / 81-105
GemmLoads(dim, matrix_size, cfg) ==
    IF GemmTilingTruthy(cfg)
    THEN LET tile_size   == cfg.tiling_size[1]
             num_tiles_m == (dim + tile_size - 1) \div tile_size
             num_tiles_n == (dim + tile_size - 1) \div tile_size
             num_tiles_k == (dim + tile_size - 1) \div tile_size
             tile_bytes  == tile_size * tile_size * cfg.data_type_size
         IN  [matrix_a_load  |-> tile_bytes * num_tiles_m * num_tiles_k,
              matrix_b_load  |-> tile_bytes * num_tiles_k * num_tiles_n,
              matrix_c_load  |-> tile_bytes * num_tiles_m * num_tiles_n,
              matrix_c_store |-> tile_bytes * num_tiles_m * num_tiles_n]
    ELSE [matrix_a_load  |-> matrix_size,
          matrix_b_load  |-> matrix_size,
          matrix_c_load  |-> matrix_size,
          matrix_c_store |-> matrix_size]

GemmWorkingSet(total_size, matrix_size, cfg) ==
    IF GemmTilingTruthy(cfg)
    THEN LET tile_size == cfg.tiling_size[1]
         IN  (2 * tile_size * tile_size + tile_size * tile_size) * cfg.data_type_size
    ELSE Min(total_size, 3 * matrix_size)

\* variant: the factor is not bounded below by 1
GemmReloads_NoFloor(hw, working_set) == Frac(working_set, hw.cgra_sram_size)

GemmReloads(hw, working_set) ==
    FracMax(FracInt(1), Frac(working_set, hw.cgra_sram_size))

\* The locals of calculate_memory_access_latency at its return.
\* volume is total_central_cgra before "total_central_cgra *= reloads".
GEMM_calculate_memory_access_latency(hw, dim, mem_req, cfg) ==
    LET matrix_size == mem_req.per_matrix
        total_size  == matrix_size * 3
        fits        == FitsCentral(hw, total_size)
        loads       == GemmLoads(dim, matrix_size, cfg)
        volume      == loads.matrix_a_load + loads.matrix_b_load
                         + loads.matrix_c_load + loads.matrix_c_store
        working_set == GemmWorkingSet(total_size, matrix_size, cfg)
        reloads     == GemmReloads(hw, working_set)
        scaled      == FracMul(FracInt(volume), reloads)
    IN  [total_size         |-> total_size,
         fits_central       |-> fits,
         total_dram_central |-> IF fits THEN <<>> ELSE <<volume>>,
         dram_to_central    |-> IF fits THEN 0
                                ELSE calculate_transfer_latency(hw, FracInt(volume)),
         volume             |-> volume,
         total_central_cgra |-> scaled,
         central_to_cgra    |-> calculate_transfer_latency(hw, scaled),
         debug_info         |-> [matrix_a_load  |-> loads.matrix_a_load,
                                 matrix_b_load  |-> loads.matrix_b_load,
                                 matrix_c_load  |-> loads.matrix_c_load,
                                 matrix_c_store |-> loads.matrix_c_store,
                                 working_set    |-> working_set,
                                 reloads        |-> reloads]]

\* variant: the operation count is not divided by the 4 operations per cycle
GEMM_calculate_latencies_NoWidth(memory_latencies, dim) ==
    [dram_to_central |-> FracInt(memory_latencies.dram_to_central),
     central_to_cgra |-> FracInt(memory_latencies.central_to_cgra),
     computation     |-> FracInt(2 * dim * dim * dim)]

\* variant: the debug working set is carried into the latencies
GEMM_calculate_latencies_Debug(memory_latencies, dim) ==
    [dram_to_central |-> FracInt(memory_latencies.dram_to_central),
     central_to_cgra |-> FracInt(memory_latencies.central_to_cgra),
     computation     |-> Frac(2 * dim * dim * dim, 4),
     working_set     |-> FracInt(memory_latencies.debug_info.working_set)]

GEMM_calculate_latencies(memory_latencies, dim) ==
    [dram_to_central |-> FracInt(memory_latencies.dram_to_central),
     central_to_cgra |-> FracInt(memory_latencies.central_to_cgra),
     computation     |-> Frac(2 * dim * dim * dim, 4)]

GemmResult(hw, dim, cfg) ==
    LET mem_req   == GEMM_calculate_memory_requirements(dim, cfg)
        frame     == GEMM_calculate_memory_access_latency(hw, dim, mem_req, cfg)
        latencies == GEMM_calculate_latencies(frame, dim)
    IN  [dimension     |-> dim,
         memory        |-> mem_req,
         latencies     |-> latencies,
         utilization   |-> calculate_memory_utilization(hw, mem_req.total),
         total_latency |-> SumValues(latencies)]

(***************************************************************************)
(* conv_analyzer.py                                                        *)
(***************************************************************************)
ConvConfig(input_dimensions, kernel_sizes, shape, data_type_size, tiling_size) ==
    [input_dimensions |-> input_dimensions,
     kernel_sizes     |-> kernel_sizes,
     num_channels     |-> shape[1],
     num_filters      |-> shape[2],
     padding          |-> shape[3],
     stride           |-> shape[4],
     data_type_size   |-> data_type_size,
     tiling_size      |-> tiling_size]

\* truth value of config.tiling_size: None is false, every 2-tuple is true
ConvTilingTruthy(cfg) == cfg.tiling_size # <<>>

OutputDim(input_dim, kernel_size, cfg) ==
    ((input_dim + 2 * cfg.padding - kernel_size) \div cfg.stride) + 1

Conv_calculate_memory_requirements(input_dim, kernel_size, cfg) ==
    LET input_size        == input_dim * input_dim * cfg.num_channels * cfg.data_type_size
        kernel_total_size == kernel_size * kernel_size * cfg.num_channels
                               * cfg.num_filters * cfg.data_type_size
        output_dim        == OutputDim(input_dim, kernel_size, cfg)
        output_size       == output_dim * output_dim * cfg.num_filters * cfg.data_type_size
    IN  [input      |-> input_size,
         kernel     |-> kernel_total_size,
         output     |-> output_size,
         total      |-> input_size + kernel_total_size + output_size,
         dimensions |-> [input  |-> <<input_dim, input_dim, cfg.num_channels>>,
                         kernel |-> <<kernel_size, kernel_size, cfg.num_channels,
                                      cfg.num_filters>>,
                         output |-> <<output_dim, output_dim, cfg.num_filters>>]]

\* (dim + tile_h - 1) // tile_h or (dim + tile_w - 1) // tile_w divides by zero
ConvZeroDivision(cfg) ==
    ConvTilingTruthy(cfg) /\ (cfg.tiling_size[1] = 0 \/ cfg.tiling_size[2] = 0)

\* variant: the untiled output is counted once
ConvLoads_OutputOnce(dim, kernel_size, input_size, kernel_size_bytes, output_size, cfg) ==
    [input_load  |-> input_size * kernel_size * kernel_size,
     kernel_load |-> kernel_size_bytes,
     output_load |-> output_size]

\* the three loads of lines 78-97 / 101-121
ConvLoads(dim, kernel_size, input_size, kernel_size_bytes, output_size, cfg) ==
    IF ConvTilingTruthy(cfg)
    THEN LET tile_h      == cfg.tiling_size[1]
             tile_w      == cfg.tiling_size[2]
             num_tiles_h == (dim + tile_h - 1) \div tile_h
             num_tiles_w == (dim + tile_w - 1) \div tile_w
             effective_tile_size == input_size \div (num_tiles_h * num_tiles_w)
         IN  [input_load  |-> effective_tile_size * num_tiles_h * num_tiles_w
                                * (1 + (kernel_size - 1)),
              kernel_load |-> kernel_size_bytes,
              output_load |-> output_size]
    ELSE [input_load  |-> input_size * kernel_size * kernel_size,
          kernel_load |-> kernel_size_bytes,
          output_load |-> output_size * 2]

ConvWorkingSet(total_size, cfg) ==
    Min(total_size,
        IF ConvTilingTruthy(cfg)
        THEN cfg.tiling_size[1] * cfg.tiling_size[2] * cfg.num_channels
               * cfg.data_type_size
        ELSE total_size)

\* variant: the reload factor is rounded up to a whole number of passes
ConvReloads_Rounded(hw, working_set) ==
    FracMax(FracInt(1), FracInt(Ceil(Frac(working_set, hw.cgra_sram_size))))

ConvReloads(hw, working_set) ==
    FracMax(FracInt(1), Frac(working_set, hw.cgra_sram_size))

\* The locals of calculate_memory_access_latency at its return.
\* volume is total_central_cgra before "total_central_cgra *= reloads".
Conv_calculate_memory_access_latency(hw, dim, kernel_size, cfg) ==
    LET input_size        == dim * dim * cfg.num_channels * cfg.data_type_size
        kernel_size_bytes == kernel_size * kernel_size * cfg.num_channels
                               * cfg.num_filters * cfg.data_type_size
        output_dim        == OutputDim(dim, kernel_size, cfg)
        output_size       == output_dim * output_dim * cfg.num_filters * cfg.data_type_size
        total_size        == input_size + kernel_size_bytes + output_size
        fits              == FitsCentral(hw, total_size)
        loads             == ConvLoads(dim, kernel_size, input_size, kernel_size_bytes,
                                       output_size, cfg)
        volume            == loads.input_load + loads.kernel_load + loads.output_load
        working_set       == ConvWorkingSet(total_size, cfg)
        reloads           == ConvReloads(hw, working_set)
        scaled            == FracMul(FracInt(volume), reloads)
    IN  [total_size         |-> total_size,
         fits_central       |-> fits,
         total_dram_central |-> IF fits THEN <<>> ELSE <<volume>>,
         dram_to_central    |-> IF fits THEN 0
                                ELSE calculate_transfer_latency(hw, FracInt(volume)),
         volume             |-> volume,
         total_central_cgra |-> scaled,
         central_to_cgra    |-> calculate_transfer_latency(hw, scaled),
         input_size         |-> input_size,
         kernel_size_bytes  |-> kernel_size_bytes,
         output_dim         |-> output_dim,
         output_size        |-> output_size,
         input_load         |-> loads.input_load,
         kernel_load        |-> loads.kernel_load,
         output_load        |-> loads.output_load,
         working_set        |-> working_set,
         reloads            |-> reloads]

Conv_calculate_latencies(memory_latencies, input_dim, kernel_size, cfg) ==
    LET output_dim == OutputDim(input_dim, kernel_size, cfg)
    IN  [dram_to_central |-> FracInt(memory_latencies.dram_to_central),
         central_to_cgra |-> FracInt(memory_latencies.central_to_cgra),
         computation     |-> FracInt(2 * kernel_size * kernel_size * cfg.num_channels
                                       * output_dim * output_dim * cfg.num_filters)]

ConvResult(hw, dim, kernel_size, cfg) ==
    LET mem_req   == Conv_calculate_memory_requirements(dim, kernel_size, cfg)
        frame     == Conv_calculate_memory_access_latency(hw, dim, kernel_size, cfg)
        latencies == Conv_calculate_latencies(frame, dim, kernel_size, cfg)
    IN  [input_dimension |-> dim,
         kernel_size     |-> kernel_size,
         memory          |-> mem_req,
         latencies       |-> latencies,
         utilization     |-> calculate_memory_utilization(hw, mem_req.total),
         total_latency   |-> SumValues(latencies)]

(***************************************************************************)
(* The sweeps: GEMMAnalyzer.analyze and ConvAnalyzer.analyze, one action   *)
(* per loop iteration.  results and calls are the list under construction  *)
(* and, for each appended record, the locals of the traffic computation    *)
(* that produced it.  transfers is the log of the calls of                 *)
(* _calculate_transfer_latency: the byte count passed and the cycles        *)
(* returned.                                                               *)
(***************************************************************************)
TransferCallRecord(hw, size_bytes) ==
    [size_bytes |-> size_bytes, cycles |-> calculate_transfer_latency(hw, size_bytes)]

\* the calls made by one calculate_memory_access_latency: the DRAM link when
\* the workload streams (line 111 / 123), then the local link (line 128 / 133)
TransferCallsOf(hw, frame) ==
    (IF frame.fits_central THEN <<>>
     ELSE <<TransferCallRecord(hw, FracInt(frame.total_dram_central[1]))>>)
    \o <<TransferCallRecord(hw, frame.total_central_cgra)>>

InitGemm ==
    /\ operation = "gemm"
    /\ \E dims \in SeqsUpTo(GemmDimValues, MaxPoints), ds \in GemmTypeSizes,
          t \in GemmTilings :
          config = GEMMConfig(dims, ds, t)

InitConv ==
    /\ operation = "conv"
    /\ \E dims \in SeqsUpTo(ConvDimValues, MaxPoints),
          ks \in SeqsUpTo(ConvKernelValues, MaxPoints),
          shape \in ConvShapes, t \in ConvTilings :
          config = ConvConfig(dims, ks, shape, 4, t)

Init ==
    /\ \E d \in HwDicts : hw_config = HardwareConfig(d)
    /\ (InitGemm \/ InitConv)
    /\ i = 1
    /\ j = 1
    /\ results = <<>>
    /\ calls = <<>>
    /\ pc = "loop"
    /\ exception = "none"
    /\ transfers = <<>>

\* one iteration of "for dim in config.dimensions"
GemmIterate ==
    /\ operation = "gemm"
    /\ pc = "loop"
    /\ i <= Len(config.dimensions)
    /\ LET dim     == config.dimensions[i]
           mem_req == GEMM_calculate_memory_requirements(dim, config)
       IN  /\ results' = ListAppend(results, GemmResult(hw_config, dim, config))
           /\ calls' = Append(calls,
                  GEMM_calculate_memory_access_latency(hw_config, dim, mem_req, config))
           /\ transfers' = transfers \o TransferCallsOf(hw_config,
                  GEMM_calculate_memory_access_latency(hw_config, dim, mem_req, config))
    /\ i' = i + 1
    /\ UNCHANGED <<operation, hw_config, config, j, pc, exception>>

\* one iteration of "for kernel_size in config.kernel_sizes"
ConvIterate ==
    /\ operation = "conv"
    /\ pc = "loop"
    /\ i <= Len(config.input_dimensions)
    /\ j <= Len(config.kernel_sizes)
    /\ ~ConvZeroDivision(config)
    /\ LET dim         == config.input_dimensions[i]
           kernel_size == config.kernel_sizes[j]
       IN  /\ results' = ListAppend(results, ConvResult(hw_config, dim, kernel_size, config))
           /\ calls' = Append(calls,
                  Conv_calculate_memory_access_latency(hw_config, dim, kernel_size, config))
           /\ transfers' = transfers \o TransferCallsOf(hw_config,
                  Conv_calculate_memory_access_latency(hw_config, dim, kernel_size, config))
    /\ j' = j + 1
    /\ UNCHANGED <<operation, hw_config, config, i, pc, exception>>

\* the iteration's tile count divides by zero: analyze is left by the exception
ConvRaise ==
    /\ operation = "conv"
    /\ pc = "loop"
    /\ i <= Len(config.input_dimensions)
    /\ j <= Len(config.kernel_sizes)
    /\ ConvZeroDivision(config)
    /\ pc' = "raised"
    /\ exception' = "ZeroDivisionError"
    /\ UNCHANGED <<operation, hw_config, config, i, j, results, calls, transfers>>

\* the inner loop is exhausted: next "for dim in config.input_dimensions"
ConvNextDim ==
    /\ operation = "conv"
    /\ pc = "loop"
    /\ i <= Len(config.input_dimensions)
    /\ j > Len(config.kernel_sizes)
    /\ i' = i + 1
    /\ j' = 1
    /\ UNCHANGED <<operation, hw_config, config, results, calls, pc, exception,
                   transfers>>

\* "return results"
Return ==
    /\ pc = "loop"
    /\ i > (IF operation = "gemm" THEN Len(config.dimensions)
                                  ELSE Len(config.input_dimensions))
    /\ pc' = "done"
    /\ UNCHANGED <<operation, hw_config, config, i, j, results, calls, exception,
                   transfers>>

Next == GemmIterate \/ ConvIterate \/ ConvRaise \/ ConvNextDim \/ Return

Spec == Init /\ [][Next]_vars

(***************************************************************************)
(* BaseAnalyzer._calculate_transfer_latency called on its own, on an       *)
(* analyzer that runs no sweep.                                            *)
(***************************************************************************)
InitTransfer ==
    /\ \E d \in TransferHwDicts : hw_config = HardwareConfig(d)
    /\ operation = "gemm"
    /\ config = GEMMConfig(<<>>, 4, <<>>)
    /\ i = 1
    /\ j = 1
    /\ results = <<>>
    /\ calls = <<>>
    /\ pc = "done"
    /\ exception = "none"
    /\ transfers = <<>>

TransferCall ==
    /\ Len(transfers) < MaxTransfers
    /\ \E size_bytes \in TransferSizes :
          transfers' = Append(transfers, TransferCallRecord(hw_config, size_bytes))
    /\ UNCHANGED <<operation, hw_config, config, i, j, results, calls, pc, exception>>

NextTransfer == TransferCall

SpecTransfer == InitTransfer /\ [][NextTransfer]_vars

TypeOK ==
    /\ operation \in {"gemm", "conv"}
    /\ pc \in {"loop", "done", "raised"}
    /\ Len(calls) = Len(results)

(***************************************************************************)
(* Properties.                                                             *)
(***************************************************************************)
Points == 1..Len(results)

DefaultHw == HardwareConfig(<<32, 512, 32, 16>>)

TilingTruthy ==
    IF operation = "gemm" THEN GemmTilingTruthy(config) ELSE ConvTilingTruthy(config)

\* least integer c with c >= (n * f[1]) / (f[2] * rate), by its defining inequalities
IsCeilOf(c, n, f, rate) ==
    /\ c * f[2] * rate >= n * f[1]
    /\ (c - 1) * f[2] * rate < n * f[1]

\* C1: whenever a workload point's total footprint is at most the central
\* SRAM capacity, GEMM or Conv, tiled or untiled, the DRAM<->central latency
\* computed by calculate_memory_access_latency is 0 and so is the one carried
\* in the result record.
C1_ResidentNoDram ==
    \A k \in Points :
        results[k].memory.total <= hw_config.central_sram_size
            => /\ calls[k].dram_to_central = 0
               /\ results[k].latencies.dram_to_central = <<0, 1>>

\* a resident point whose footprint exceeds the local buffer, tiled, Conv
C1_Witness ==
    \E k \in Points :
        /\ operation = "conv"
        /\ ConvTilingTruthy(config)
        /\ results[k].memory.total <= hw_config.central_sram_size
        /\ results[k].memory.total > hw_config.cgra_sram_size
        /\ calls[k].dram_to_central = 0

\* C2: whenever the footprint exceeds the central SRAM capacity, the
\* DRAM<->central byte volume is the pre-reload central<->local volume, and
\* each link is converted on its own: dram_to_central = ceil(volume / rate),
\* central_to_cgra = ceil(volume * reloads / rate).
C2_StreamingLinks ==
    \A k \in Points :
        results[k].memory.total > hw_config.central_sram_size
            => LET c    == calls[k]
                   rate == hw_config.dma_transfer_rate
                   rl   == IF operation = "gemm" THEN c.debug_info.reloads
                                                 ELSE c.reloads
               IN  /\ c.total_dram_central = <<c.volume>>
                   /\ IsCeilOf(c.dram_to_central, c.volume, <<1, 1>>, rate)
                   /\ IsCeilOf(c.central_to_cgra, c.volume, rl, rate)
                   /\ results[k].latencies.dram_to_central = <<c.dram_to_central, 1>>
                   /\ results[k].latencies.central_to_cgra = <<c.central_to_cgra, 1>>

\* a streaming point with a fractional reload factor, where converting the
\* sum of the two byte volumes would give another cycle count
C2_Witness ==
    \E k \in Points :
        LET c  == calls[k]
            rl == IF operation = "gemm" THEN c.debug_info.reloads ELSE c.reloads
        IN  /\ results[k].memory.total > hw_config.central_sram_size
            /\ rl[2] > 1
            /\ c.volume % hw_config.dma_transfer_rate # 0
            /\ c.dram_to_central > 0
            /\ c.central_to_cgra > c.dram_to_central

\* C3: on the profile central = 512 KiB, local = 32 KiB, 16 B/cycle, an
\* untiled GEMM of element size 4 gives, for dimension 16, 0 / 256 / 2048
\* cycles and total 2304, and for dimension 256, 65536 / 1572864 / 8388608
\* cycles with reload 24 and total 10027008.
C3_Scenarios ==
    (operation = "gemm" /\ hw_config = DefaultHw
       /\ config.data_type_size = 4 /\ config.tiling_size = <<>>)
    => \A k \in Points :
          /\ results[k].dimension = 16
               => /\ results[k].latencies = [dram_to_central |-> <<0, 1>>,
                                             central_to_cgra |-> <<256, 1>>,
                                             computation     |-> <<2048, 1>>]
                  /\ results[k].total_latency = <<2304, 1>>
          /\ results[k].dimension = 256
               => /\ results[k].latencies = [dram_to_central |-> <<65536, 1>>,
                                             central_to_cgra |-> <<1572864, 1>>,
                                             computation     |-> <<8388608, 1>>]
                  /\ calls[k].debug_info.reloads = <<24, 1>>
                  /\ results[k].total_latency = <<10027008, 1>>

\* both scenarios in one sweep
C3_Witness ==
    /\ operation = "gemm" /\ hw_config = DefaultHw
    /\ config.data_type_size = 4 /\ config.tiling_size = <<>>
    /\ pc = "done"
    /\ config.dimensions = <<16, 256>>
    /\ Len(results) = 2

\* C4: a Conv point whose output side is below 1 fails with InvalidWorkload
\* and yields no result record.  (The code raises nothing and appends a
\* record for it.)
C4_NoRecordForInvalidOutput ==
    operation = "conv"
        => \A k \in Points :
              OutputDim(results[k].input_dimension, results[k].kernel_size, config) >= 1

\* C5: a tiling with a zero-sized tile dimension fails with
\* InvalidConfiguration: it yields no result record, and the sweep is left
\* by that error.  (GEMM treats tile 0 as untiled; Conv raises
\* ZeroDivisionError.)
ZeroTile ==
    \E n \in DOMAIN config.tiling_size : config.tiling_size[n] = 0

C5_ZeroTileRejected ==
    ZeroTile => /\ results = <<>>
                /\ pc = "raised" => exception = "InvalidConfiguration"

\* C6: a sweep returns one record per workload point in input order: GEMM
\* record k is the record of dimensions[k] alone; Conv records enumerate
\* input dimensions (outer) by kernel sizes (inner), each the record of its
\* own point alone; during the sweep the list is a prefix of that sequence.
\* (A Conv sweep that meets a zero-sized tile returns nothing: it is left by
\* the exception at its first point.)
ExpectedGemm ==
    [k \in 1..Len(config.dimensions) |->
        GemmResult(hw_config, config.dimensions[k],
                   [config EXCEPT !.dimensions = <<config.dimensions[k]>>])]

ExpectedConv ==
    LET nk == Len(config.kernel_sizes)
    IN  [k \in 1..(Len(config.input_dimensions) * nk) |->
            LET a == ((k - 1) \div nk) + 1
                b == ((k - 1) % nk) + 1
            IN  ConvResult(hw_config, config.input_dimensions[a], config.kernel_sizes[b],
                           [config EXCEPT !.input_dimensions = <<config.input_dimensions[a]>>,
                                          !.kernel_sizes = <<config.kernel_sizes[b]>>])]

Expected == IF operation = "gemm" THEN ExpectedGemm ELSE ExpectedConv

C6_OneRecordPerPointInOrder ==
    IF operation = "conv" /\ ConvZeroDivision(config)
    THEN /\ results = <<>>
         /\ pc = "done" => Len(config.input_dimensions) * Len(config.kernel_sizes) = 0
    ELSE /\ Len(results) <= Len(Expected)
         /\ \A k \in Points : results[k] = Expected[k]
         /\ pc = "done" => results = Expected

\* a finished Conv sweep of two input dimensions by two kernel sizes, all
\* four points different
C6_Witness ==
    /\ operation = "conv"
    /\ pc = "done"
    /\ Len(results) = 4
    /\ config.input_dimensions[1] # config.input_dimensions[2]
    /\ config.kernel_sizes[1] # config.kernel_sizes[2]
    /\ Cardinality({results[k] : k \in Points}) = 4

\* C7: in every result record total_latency is dram_to_central +
\* central_to_cgra + computation of that record's latencies, which has no
\* other field.
C7_TotalIsSumOfThree ==
    \A k \in Points :
        LET l == results[k].latencies
        IN  /\ DOMAIN l = {"dram_to_central", "central_to_cgra", "computation"}
            /\ results[k].total_latency[2] * (l.dram_to_central[1] + l.central_to_cgra[1])
                 * l.computation[2] + results[k].total_latency[2] * l.computation[1]
                 = results[k].total_latency[1] * l.computation[2]

\* a GEMM record with all three terms non-zero and a fractional computation
C7_Witness ==
    \E k \in Points :
        LET l == results[k].latencies
        IN  /\ operation = "gemm"
            /\ l.dram_to_central[1] > 0
            /\ l.central_to_cgra[1] > 0
            /\ l.computation[2] = 2
            /\ calls[k].debug_info.working_set > 0

\* the fraction u in lowest terms is a / b (b > 0, a >= 0)
EqualsRatio(u, a, b) ==
    \/ a = 0 /\ u = <<0, 1>>
    \/ /\ u[1] > 0
       /\ a % u[1] = 0
       /\ (a \div u[1]) * u[2] = b
       /\ GCD(u[1], u[2]) = 1

\* the fraction rl is max(1, ws / buf)
IsReloadOf(rl, ws, buf) ==
    IF ws > buf THEN EqualsRatio(rl, ws, buf) ELSE rl = <<1, 1>>

CallWorkingSet(k) ==
    IF operation = "gemm" THEN calls[k].debug_info.working_set ELSE calls[k].working_set

CallReloads(k) ==
    IF operation = "gemm" THEN calls[k].debug_info.reloads ELSE calls[k].reloads

\* the per-iteration tile volume: GEMM 3 * t^2 * element_size, Conv
\* tile_h * tile_w * channels * element_size
TileVolume ==
    IF operation = "gemm"
    THEN 3 * config.tiling_size[1] * config.tiling_size[1] * config.data_type_size
    ELSE config.tiling_size[1] * config.tiling_size[2] * config.num_channels
           * config.data_type_size

ReloadApplied(k) ==
    /\ IsReloadOf(CallReloads(k), CallWorkingSet(k), hw_config.cgra_sram_size)
    /\ IsCeilOf(calls[k].central_to_cgra, calls[k].volume, CallReloads(k),
                hw_config.dma_transfer_rate)

C9_UntiledConvVolume ==
    (operation = "conv" /\ ~ConvTilingTruthy(config))
    => \A k \in Points :
          LET m    == results[k].memory
              ks   == results[k].kernel_size
              n    == results[k].input_dimension
              od   == OutputDim(n, ks, config)
              inb  == n * n * config.num_channels * config.data_type_size
              kb   == ks * ks * config.num_channels * config.num_filters
                        * config.data_type_size
              outb == od * od * config.num_filters * config.data_type_size
          IN  /\ m.input = inb /\ m.kernel = kb /\ m.output = outb
              /\ calls[k].volume = inb * ks * ks + kb + 2 * outb
              /\ ks = 1 => /\ calls[k].input_load = inb
                           /\ calls[k].output_load = 2 * outb

\* an untiled Conv point with kernel side 1, stride 2 and a valid output
C9_Witness ==
    \E k \in Points :
        /\ operation = "conv"
        /\ ~ConvTilingTruthy(config)
        /\ results[k].kernel_size = 1
        /\ config.stride = 2
        /\ results[k].memory.output > 0
        /\ calls[k].output_load = 2 * results[k].memory.output

\* C10: every utilization fraction lies in [0, 1]; it is footprint /
\* capacity when the footprint is at most the tier's capacity and 1
\* otherwise.
TierFraction(u, total, capacity) ==
    /\ u[1] >= 0 /\ u[2] > 0 /\ u[1] <= u[2]
    /\ IF total <= capacity THEN EqualsRatio(u, total, capacity) ELSE u = <<1, 1>>

C10_UtilizationFractions ==
    \A k \in Points :
        LET u     == results[k].utilization
            total == results[k].memory.total
        IN  /\ DOMAIN u = {"cgra_sram", "central_sram", "dram"}
            /\ TierFraction(u.cgra_sram, total, hw_config.cgra_sram_size)
            /\ TierFraction(u.central_sram, total, hw_config.central_sram_size)
            /\ TierFraction(u.dram, total, hw_config.dram_size)

\* a record that overflows the local buffer and fills part of the two
\* larger tiers
C10_Witness ==
    \E k \in Points :
        LET u == results[k].utilization
        IN  /\ results[k].memory.total > hw_config.cgra_sram_size
            /\ u.cgra_sram = <<1, 1>>
            /\ u.central_sram[1] < u.central_sram[2]
            /\ u.dram[1] > 0 /\ u.dram[1] < u.dram[2]

\* C11: for every hardware profile (positive DMA rate) the transfer latency
\* is ceil(b / rate); it is monotone non-decreasing in the byte count b, and
\* it is 0 for b = 0.
C11_TransferLatencyMonotone ==
    \A m \in DOMAIN transfers :
        /\ IsCeilOf(transfers[m].cycles, 1, transfers[m].size_bytes,
                    hw_config.dma_transfer_rate)
        /\ transfers[m].size_bytes[1] = 0 => transfers[m].cycles = 0
        /\ \A n \in DOMAIN transfers :
              FracLeq(transfers[m].size_bytes, transfers[n].size_bytes)
                  => transfers[m].cycles <= transfers[n].cycles

\* a call with 0 bytes followed by one with a byte count the rate does not
\* divide
C11_Witness ==
    /\ Len(transfers) = 2
    /\ transfers[1].size_bytes = <<0, 1>>
    /\ transfers[1].cycles = 0
    /\ transfers[2].size_bytes = <<17, 1>>
    /\ hw_config.dma_transfer_rate = 16
    /\ transfers[2].cycles = 2

\* C12: for tiled Conv the volume before reload is input_load + kernel_bytes
\* + output_bytes, and input_load is input_bytes * kernel_side for every
\* input size and tile shape, also when tiles_h * tiles_w does not divide
\* input_bytes.  (The code divides with //, so input_load is
\* (input_bytes // tiles) * tiles * kernel_side.)
C12_TiledConvInputLoad ==
    (operation = "conv" /\ ConvTilingTruthy(config))
    => \A k \in Points :
          /\ calls[k].input_load = results[k].memory.input * results[k].kernel_size
          /\ calls[k].volume = calls[k].input_load + results[k].memory.kernel
                                 + results[k].memory.output

\* C13: for tiled GEMM with tile side t > 0 the volume before reload is
\* 4 * (t^2 * element_size) * tiles^2 with tiles = ceil(dimension / t), which
\* is at least 1; with t > dimension, tiles = 1 and the volume is
\* 4 * t^2 * element_size.
C13_TiledGemmVolume ==
    (operation = "gemm" /\ GemmTilingTruthy(config))
    => \A k \in Points :
          LET t   == config.tiling_size[1]
              dim == results[k].dimension
              per == t * t * config.data_type_size
              dbg == calls[k].debug_info
          IN  /\ \E tiles \in 1..dim :
                    /\ tiles * t >= dim
                    /\ (tiles - 1) * t < dim
                    /\ calls[k].volume = 4 * per * tiles * tiles
                    /\ dbg.matrix_a_load = per * tiles * tiles
                    /\ dbg.matrix_b_load = per * tiles * tiles
                    /\ dbg.matrix_c_load = per * tiles * tiles
                    /\ dbg.matrix_c_store = per * tiles * tiles
              /\ t > dim => calls[k].volume = 4 * per

\* a sweep with a tile larger than its first dimension and smaller than its
\* second
C13_Witness ==
    /\ operation = "gemm"
    /\ GemmTilingTruthy(config)
    /\ Len(results) = 2
    /\ config.tiling_size[1] > results[1].dimension
    /\ calls[1].volume = 4 * config.tiling_size[1] * config.tiling_size[1]
                           * config.data_type_size
    /\ config.tiling_size[1] < results[2].dimension
    /\ calls[2].volume > calls[1].volume

\* C14: in every result record central_to_cgra >= dram_to_central: a
\* streaming workload moves the same volume on both links, the local one
\* scaled by reload >= 1, and a resident one has DRAM latency 0.
C14_LocalLinkDominates ==
    \A k \in Points :
        /\ results[k].latencies.central_to_cgra[2] = 1
        /\ results[k].latencies.dram_to_central[2] = 1
        /\ results[k].latencies.central_to_cgra[1] >= results[k].latencies.dram_to_central[1]
        /\ results[k].latencies.dram_to_central[1] >= 0
        /\ calls[k].central_to_cgra >= calls[k].dram_to_central

\* a tiled GEMM sweep with a streaming point whose reload factor exceeds 1
\* (local link strictly slower) and a resident point (DRAM latency 0)
C14_Witness ==
    /\ operation = "gemm"
    /\ GemmTilingTruthy(config)
    /\ \E k \in Points :
          /\ ~calls[k].fits_central
          /\ calls[k].debug_info.working_set > hw_config.cgra_sram_size
          /\ calls[k].dram_to_central > 0
          /\ calls[k].central_to_cgra > calls[k].dram_to_central
    /\ \E k \in Points :
          /\ calls[k].fits_central
          /\ calls[k].dram_to_central = 0
          /\ calls[k].central_to_cgra > 0

====
